---- MODULE Spec2Model ----
(***************************************************************************)
(* Donation settlement of the Fivopay community backend: order creation,   *)
(* payment verification / capture, event raised-amount accumulation, the   *)
(* devotee's favorites and the admin's event maintenance.                  *)
(*                                                                         *)
(* Every request handler is an async function: it runs from one await to   *)
(* the next without interruption, and other requests run between its       *)
(* awaits.  Each database statement (findOne, update, create, destroy) is  *)
(* one atomic step; the synchronous code after a statement's result is     *)
(* part of the step that obtained the result.                              *)
(***************************************************************************)
EXTENDS Integers, Sequences, FiniteSets, TLC

\* ---------------------------------------------------------------- bounds
MaxReq == 2          \* requests handled in one behaviour (concurrent or not)
NumStored == 2       \* donation rows already in the table at start
MaxNow == 11         \* minutes the server clock runs

\* ------------------------------------------------------------ population
Devotees == {1, 2}
Admins == {1, 2}
EventIds == {1}
PaymentIds == {1}
\* request body amounts, in thousandths of a rupee (1000 = Rs 1): just
\* below Rs 1, Rs 1, Rs 1.005, the ceiling of Rs 1,000,000 and just above it
AmountInputs == {999, 1000, 1005, 1000000000, 1000000001}

Null == 0
PENDING == "pending"
CAPTURED == "captured"
FAILED == "failed"
MAX_FAVORITES == 5

VARIABLES
    donations,          \* donations table: sequence of rows, index = id
    events,             \* events table: id -> row
    favorites,          \* devotee_favorites table: set of rows
    userActive,         \* users table: admin id -> isActive
    razorpayKeySecret,  \* process.env.RAZORPAY_KEY_SECRET (Null = unset)
    gatewayOrders,      \* number of orders created at the gateway
    devoteeOtp,         \* devotees table: id -> otpHash, otpExpiresAt
    now,                \* the server clock, in minutes
    reqs                \* request slot -> handler activation record

vars == <<donations, events, favorites, userActive, razorpayKeySecret,
          gatewayOrders, devoteeOtp, now, reqs>>

\* the state of the OTP login
otpVars == <<devoteeOtp, now>>

Slots == 1..MaxReq

\* ------------------------------------------------------------ pure parts

\* crypto.createHmac('sha256', secret).update(`${orderId}|${paymentId}`)
\* as an injective keyed encoding of the pair.
Hmac(secret, orderId, paymentId) == secret * 10000 + orderId * 100 + paymentId

\* the secret-unset throw is missing: an unset secret compares unequal
BadVerifyPaymentSignature(secret, orderId, paymentId, signature) ==
    IF secret # Null /\ Hmac(secret, orderId, paymentId) = signature
    THEN "true" ELSE "false"

\* the comparison is missing: any signature is accepted
LaxVerifyPaymentSignature(secret, orderId, paymentId, signature) ==
    IF secret = Null THEN "throws" ELSE "true"

\* a mismatch throws instead of returning false
ThrowingVerifyPaymentSignature(secret, orderId, paymentId, signature) ==
    IF secret = Null THEN "throws"
    ELSE IF Hmac(secret, orderId, paymentId) = signature THEN "true"
    ELSE "throws"

\* razorpayService.verifyPaymentSignature: throws when the secret is unset,
\* else expected === signature
verifyPaymentSignature(secret, orderId, paymentId, signature) ==
    IF secret = Null THEN "throws"
    ELSE IF Hmac(secret, orderId, paymentId) = signature THEN "true"
    ELSE "false"

\* validateVerifyDonation: each field must be a non-empty string
validateVerifyDonation(orderId, paymentId, signature) ==
    orderId # Null /\ paymentId # Null /\ signature # Null

\* Math.round(Number(donation.amount) * 100): the stored DECIMAL(10,2)
\* amount is kept here in hundredths of a rupee.
donationAmountPaise(amount) == amount

\* rows of the donations table a findOne({razorpayOrderId, devoteeId}) matches
BadMatchingDonations(orderId, devoteeId) ==
    {i \in DOMAIN donations : donations[i].razorpayOrderId = orderId}

\* the lookup also asks that the organization is a favorite of the devotee
FavoriteMatchingDonations(orderId, devoteeId) ==
    {i \in DOMAIN donations :
        /\ donations[i].razorpayOrderId = orderId
        /\ donations[i].devoteeId = devoteeId
        /\ \E f \in favorites : /\ f.devoteeId = devoteeId
                                /\ f.adminId = donations[i].adminId}

MatchingDonations(orderId, devoteeId) ==
    {i \in DOMAIN donations :
        /\ donations[i].razorpayOrderId = orderId
        /\ donations[i].devoteeId = devoteeId}

\* validateCreateDonation: amount (thousandths of a rupee) must be a number
\* in [1, 1000000] rupees.  The returned data holds adminId and
\* amountRupees = Math.floor(amount * 100) / 100 (here in hundredths of a
\* rupee); it has no eventId, so the handler's eventId is undefined.
CEILING_MILLIS == 1000000000

\* the ceiling test is missing
BadValidateCreateDonation(adminId, amount, eventId) ==
    IF adminId = Null \/ adminId < 0 \/ amount < 1000
    THEN [valid |-> FALSE, adminId |-> Null, amountRupees |-> Null, eventId |-> Null]
    ELSE [valid |-> TRUE, adminId |-> adminId, amountRupees |-> amount \div 10,
          eventId |-> Null]

validateCreateDonation(adminId, amount, eventId) ==
    IF adminId = Null \/ adminId < 0 \/ amount < 1000 \/ amount > CEILING_MILLIS
    THEN [valid |-> FALSE, adminId |-> Null, amountRupees |-> Null, eventId |-> Null]
    ELSE [valid |-> TRUE, adminId |-> adminId, amountRupees |-> amount \div 10,
          eventId |-> Null]

\* Math.round(amountRupees * 100) of a two-decimal amount
amountPaiseOf(amountRupees) == amountRupees

\* [...new Set(ids)]: first occurrences, in order
RECURSIVE Unique(_)
Unique(ids) ==
    IF ids = <<>> THEN <<>>
    ELSE LET init == Unique(SubSeq(ids, 1, Len(ids) - 1))
             last == ids[Len(ids)]
         IN IF \E k \in DOMAIN init : init[k] = last THEN init
            ELSE Append(init, last)

\* validateAdminIds
validateAdminIds(adminIds) ==
    IF Len(adminIds) > MAX_FAVORITES
    THEN [valid |-> FALSE, value |-> <<>>]
    ELSE IF \E k \in DOMAIN adminIds : adminIds[k] <= 0
    THEN [valid |-> FALSE, value |-> <<>>]
    ELSE IF Len(Unique(adminIds)) > MAX_FAVORITES
    THEN [valid |-> FALSE, value |-> <<>>]
    ELSE [valid |-> TRUE, value |-> Unique(adminIds)]

\* the devotee_favorites rows a findOne({devoteeId, adminId}) matches
BadFavoriteRows(devoteeId, adminId) ==
    {f \in favorites : f.adminId = adminId}

FavoriteRows(devoteeId, adminId) ==
    {f \in favorites : f.devoteeId = devoteeId /\ f.adminId = adminId}

\* ------------------------------------------------------------- the state

DonationRow(dev, adm, ev, amt, ord) ==
    [devoteeId |-> dev, adminId |-> adm, eventId |-> ev, amount |-> amt,
     razorpayOrderId |-> ord, razorpayPaymentId |-> Null,
     razorpaySignature |-> Null, utr |-> Null, transactionId |-> Null,
     status |-> PENDING]

NoEnrichment == [utr |-> Null, transactionId |-> Null, paymentMethod |-> Null]

\* a devotee row without an OTP: otpHash and otpExpiresAt are null
NoOtp == [otpHash |-> <<>>, otpExpiresAt |-> Null]

IdleReq ==
    [op |-> "none", pc |-> "idle", devoteeId |-> Null, adminId |-> Null,
     amount |-> Null, orderId |-> Null, paymentId |-> Null,
     signature |-> Null, idx |-> Null, seen |-> "none", eventId |-> Null,
     bodyEventId |-> Null, bodyAmount |-> Null, bodyRaised |-> Null,
     totalDonations |-> 0, totalAmountPaise |-> 0,
     otp |-> "", otpHash |-> <<>>, otpExpiresAt |-> Null,
     currentRaised |-> 0, adminIds |-> <<>>, fetchThrew |-> FALSE,
     enrich |-> NoEnrichment, result |-> "none"]

\* amounts (hundredths of a rupee) of the rows present at start
StoredAmounts == {100, 200}

\* Rows present in the donations table when the service starts (the table
\* outlives the process): pending orders of devotee 1 for organization 1,
\* their event_id column naming its event 1.
StoredDonations ==
    {s \in [1..NumStored -> StoredAmounts] :
        \A i \in 1..(NumStored - 1) : s[i] <= s[i + 1]}

Init ==
    /\ \E s \in StoredDonations :
          donations = [i \in 1..NumStored |-> DonationRow(1, 1, 1, s[i], i)]
    /\ events = [e \in EventIds |->
                    [adminId |-> 1, raisedAmountPaise |-> 0, isActive |-> TRUE]]
    /\ favorites = {[devoteeId |-> 1, adminId |-> 1, displayOrder |-> 1]}
    /\ userActive = [a \in Admins |-> TRUE]
    /\ razorpayKeySecret \in {Null, 7}
    /\ gatewayOrders = 0
    /\ devoteeOtp = [d \in Devotees |-> NoOtp]
    /\ now = 0
    /\ reqs = [r \in Slots |-> IdleReq]

\* a slot is taken by a new request; slots are used in order
CanStart(r) ==
    /\ reqs[r].pc = "idle"
    /\ \A q \in Slots : q < r => reqs[q].pc # "idle"

\* the handler returns: its locals are dropped, the request and its
\* response are kept
Finish(r, res) ==
    [reqs[r] EXCEPT !.pc = "done", !.result = res, !.currentRaised = 0,
                    !.enrich = NoEnrichment]

\* ------------------------------------------------- verifyDonation handler

\* The known gateway order ids a client can present
KnownOrderIds == {donations[i].razorpayOrderId : i \in DOMAIN donations} \ {Null}

\* The request bodies clients present: for every devotee, known order and
\* payment the signature the gateway issued under the key secret 7 and a
\* tampered one, one body without a signature, and one for a second
\* payment (id 2) of the first order with the signature issued for it.
VerifyBodies ==
    {[devoteeId |-> dev, orderId |-> ord, paymentId |-> pay,
      signature |-> Hmac(7, ord, pay) + tamper] :
        dev \in Devotees, ord \in KnownOrderIds, pay \in PaymentIds,
        tamper \in {0, 1}}
    \cup
    {[devoteeId |-> 1, orderId |-> ord, paymentId |-> 1, signature |-> Null] :
        ord \in {o \in KnownOrderIds : \A k \in KnownOrderIds : o <= k}}
    \cup
    {[devoteeId |-> 1, orderId |-> ord, paymentId |-> 2,
      signature |-> Hmac(7, ord, 2)] :
        ord \in {o \in KnownOrderIds : \A k \in KnownOrderIds : o <= k}}

\* What razorpayService.fetchPayment gives for a payment: it throws, or it
\* resolves to payment details (here a UPI payment: method, acquirer_data.rrn
\* and no acquirer_data.bank_transaction_id).
FetchPaymentOutcomes ==
    {[throws |-> TRUE, method |-> Null, rrn |-> Null, bank_transaction_id |-> Null],
     [throws |-> FALSE, method |-> 1, rrn |-> 5, bank_transaction_id |-> Null]}

\* the fallback of line 137 is applied after the catch as well
BadEnrichment(fetched, razorpayPaymentId) ==
    IF fetched.throws
    THEN [utr |-> Null, transactionId |-> razorpayPaymentId, paymentMethod |-> Null]
    ELSE [utr |-> fetched.rrn,
          transactionId |-> IF fetched.bank_transaction_id # Null
                            THEN fetched.bank_transaction_id
                            ELSE razorpayPaymentId,
          paymentMethod |-> fetched.method]

\* lines 122-143: utr, transactionId and paymentMethod from the fetch
Enrichment(fetched, razorpayPaymentId) ==
    IF fetched.throws
    THEN [utr |-> Null, transactionId |-> Null, paymentMethod |-> Null]
    ELSE [utr |-> fetched.rrn,
          transactionId |-> IF fetched.bank_transaction_id # Null
                            THEN fetched.bank_transaction_id
                            ELSE razorpayPaymentId,
          paymentMethod |-> fetched.method]

BadAlreadyCaptured(row) == FALSE

\* line 108
AlreadyCaptured(row) == row.status = CAPTURED

BadAlreadyFailed(row) == FALSE

\* line 111
AlreadyFailed(row) == row.status = FAILED

\* lines 91-143: validation, Donation.findOne, the status checks, the
\* signature check and the fetchPayment call whose failure is swallowed.
VerifyFind(r) ==
    /\ CanStart(r)
    /\ \E body \in VerifyBodies :
         LET dev == body.devoteeId
             ord == body.orderId
             pay == body.paymentId
             sig == body.signature
             me == [IdleReq EXCEPT !.op = "verifyDonation", !.devoteeId = dev,
                       !.orderId = ord, !.paymentId = pay, !.signature = sig]
         IN
         IF ~validateVerifyDonation(ord, pay, sig)
         THEN reqs' = [reqs EXCEPT ![r] = [me EXCEPT !.pc = "done", !.result = "422"]]
         ELSE IF MatchingDonations(ord, dev) = {}
         THEN reqs' = [reqs EXCEPT ![r] = [me EXCEPT !.pc = "done", !.result = "404"]]
         ELSE \E i \in MatchingDonations(ord, dev) :
              LET row == donations[i]
                  found == [me EXCEPT !.idx = i, !.seen = row.status,
                                      !.eventId = row.eventId,
                                      !.amount = row.amount]
              IN
              IF AlreadyCaptured(row)
              THEN reqs' = [reqs EXCEPT ![r] =
                              [found EXCEPT !.pc = "done", !.result = "200 already"]]
              ELSE IF AlreadyFailed(row)
              THEN reqs' = [reqs EXCEPT ![r] =
                              [found EXCEPT !.pc = "done", !.result = "400 failed"]]
              ELSE IF verifyPaymentSignature(razorpayKeySecret, ord, pay, sig) = "throws"
              THEN reqs' = [reqs EXCEPT ![r] =
                              [found EXCEPT !.pc = "done", !.result = "500"]]
              ELSE IF verifyPaymentSignature(razorpayKeySecret, ord, pay, sig) = "false"
              THEN reqs' = [reqs EXCEPT ![r] = [found EXCEPT !.pc = "markFailed"]]
              ELSE \E fetched \in FetchPaymentOutcomes :
                   reqs' = [reqs EXCEPT ![r] =
                              [found EXCEPT !.pc = "capture",
                                  !.fetchThrew = fetched.throws,
                                  !.enrich = Enrichment(fetched, pay)]]
    /\ UNCHANGED <<otpVars, donations, events, favorites, userActive,
                   razorpayKeySecret, gatewayOrders>>

\* the row of a failed payment is destroyed instead of being kept as failed
BadVerifyMarkFailed(r) ==
    /\ reqs[r].op = "verifyDonation" /\ reqs[r].pc = "markFailed"
    /\ donations' = [i \in 1..(Len(donations) - 1) |->
                        IF i < reqs[r].idx THEN donations[i] ELSE donations[i + 1]]
    /\ reqs' = [reqs EXCEPT ![r] = Finish(r, "400 signature")]
    /\ UNCHANGED <<otpVars, events, favorites, userActive, razorpayKeySecret, gatewayOrders>>

\* line 117: donation.update({ status: FAILED }), then the 400 response
VerifyMarkFailed(r) ==
    /\ reqs[r].op = "verifyDonation" /\ reqs[r].pc = "markFailed"
    /\ donations' = [donations EXCEPT ![reqs[r].idx].status = FAILED]
    /\ reqs' = [reqs EXCEPT ![r] = Finish(r, "400 signature")]
    /\ UNCHANGED <<otpVars, events, favorites, userActive, razorpayKeySecret, gatewayOrders>>

\* the capture write also stores the paid amount, which the gateway
\* reports in paise
BadVerifyCapture(r) ==
    /\ reqs[r].op = "verifyDonation" /\ reqs[r].pc = "capture"
    /\ donations' = [donations EXCEPT
                        ![reqs[r].idx].razorpayPaymentId = reqs[r].paymentId,
                        ![reqs[r].idx].razorpaySignature = reqs[r].signature,
                        ![reqs[r].idx].utr = reqs[r].enrich.utr,
                        ![reqs[r].idx].transactionId = reqs[r].enrich.transactionId,
                        ![reqs[r].idx].amount = reqs[r].amount * 100,
                        ![reqs[r].idx].status = CAPTURED]
    /\ reqs' = [reqs EXCEPT ![r] =
                  IF reqs[r].eventId # Null
                  THEN [reqs[r] EXCEPT !.pc = "findEvent"]
                  ELSE Finish(r, "200")]
    /\ UNCHANGED <<otpVars, events, favorites, userActive, razorpayKeySecret, gatewayOrders>>

\* lines 145-154: donation.update({..., status: CAPTURED}) and the eventId
\* test; paymentMethod is not an attribute of the Donation model and is
\* dropped by the update.
VerifyCapture(r) ==
    /\ reqs[r].op = "verifyDonation" /\ reqs[r].pc = "capture"
    /\ donations' = [donations EXCEPT
                        ![reqs[r].idx].razorpayPaymentId = reqs[r].paymentId,
                        ![reqs[r].idx].razorpaySignature = reqs[r].signature,
                        ![reqs[r].idx].utr = reqs[r].enrich.utr,
                        ![reqs[r].idx].transactionId = reqs[r].enrich.transactionId,
                        ![reqs[r].idx].status = CAPTURED]
    /\ reqs' = [reqs EXCEPT ![r] =
                  IF reqs[r].eventId # Null
                  THEN [reqs[r] EXCEPT !.pc = "findEvent"]
                  ELSE Finish(r, "200")]
    /\ UNCHANGED <<otpVars, events, favorites, userActive, razorpayKeySecret, gatewayOrders>>

\* lines 155-157: Event.findByPk(donation.eventId), currentRaised
VerifyFindEvent(r) ==
    /\ reqs[r].op = "verifyDonation" /\ reqs[r].pc = "findEvent"
    /\ reqs' = [reqs EXCEPT ![r] =
                  IF reqs[r].eventId \in DOMAIN events
                  THEN [reqs[r] EXCEPT !.pc = "creditEvent",
                          !.currentRaised = events[reqs[r].eventId].raisedAmountPaise]
                  ELSE Finish(r, "200")]
    /\ UNCHANGED <<otpVars, donations, events, favorites, userActive,
                   razorpayKeySecret, gatewayOrders>>

\* lines 159-160: ev.update({ raisedAmountPaise: currentRaised + paise })
VerifyCreditEvent(r) ==
    /\ reqs[r].op = "verifyDonation" /\ reqs[r].pc = "creditEvent"
    /\ events' = [events EXCEPT ![reqs[r].eventId].raisedAmountPaise =
                    reqs[r].currentRaised + donationAmountPaise(reqs[r].amount)]
    /\ reqs' = [reqs EXCEPT ![r] = Finish(r, "200")]
    /\ UNCHANGED <<otpVars, donations, favorites, userActive, razorpayKeySecret, gatewayOrders>>

\* a database statement of the handler rejects: catch (err) { next(err) }
VerifyStorageError(r) ==
    /\ reqs[r].op = "verifyDonation"
    /\ reqs[r].pc \in {"markFailed", "capture", "findEvent", "creditEvent"}
    /\ reqs' = [reqs EXCEPT ![r] = Finish(r, "500")]
    /\ UNCHANGED <<otpVars, donations, events, favorites, userActive,
                   razorpayKeySecret, gatewayOrders>>

\* -------------------------------------------- createDonationOrder handler

\* request bodies' adminIds lists
AdminIdLists == {<<>>, <<1>>, <<2, 1>>, <<2, 2>>}

\* lines 16-33: validation, the Rs 1 floor, DevoteeFavorite.findOne
CreateOrderFindFavorite(r) ==
    /\ CanStart(r)
    /\ \E dev \in Devotees, adm \in Admins, amt \in AmountInputs,
          ev \in EventIds \cup {Null} :
         LET v == validateCreateDonation(adm, amt, ev)
             me == [IdleReq EXCEPT !.op = "createDonationOrder",
                       !.devoteeId = dev, !.adminId = adm,
                       !.amount = v.amountRupees, !.eventId = v.eventId,
                       !.bodyEventId = ev, !.bodyAmount = amt]
         IN
         IF ~v.valid
         THEN reqs' = [reqs EXCEPT ![r] = [me EXCEPT !.pc = "done", !.result = "422"]]
         ELSE IF amountPaiseOf(v.amountRupees) < 100
         THEN reqs' = [reqs EXCEPT ![r] = [me EXCEPT !.pc = "done", !.result = "422"]]
         ELSE IF FavoriteRows(dev, v.adminId) = {}
         THEN reqs' = [reqs EXCEPT ![r] =
                         [me EXCEPT !.pc = "done", !.result = "400 favorite"]]
         ELSE reqs' = [reqs EXCEPT ![r] = [me EXCEPT !.pc = "findAdmin"]]
    /\ UNCHANGED <<otpVars, donations, events, favorites, userActive,
                   razorpayKeySecret, gatewayOrders>>

\* lines 35-41: User.findByPk(adminId), isActive, then the eventId branch
CreateOrderFindAdmin(r) ==
    /\ reqs[r].op = "createDonationOrder" /\ reqs[r].pc = "findAdmin"
    /\ reqs' = [reqs EXCEPT ![r] =
                  IF ~(reqs[r].adminId \in DOMAIN userActive
                       /\ userActive[reqs[r].adminId])
                  THEN Finish(r, "400 organization")
                  ELSE IF reqs[r].eventId # Null
                  THEN [reqs[r] EXCEPT !.pc = "findEvent"]
                  ELSE [reqs[r] EXCEPT !.pc = "createOrder"]]
    /\ UNCHANGED <<otpVars, donations, events, favorites, userActive,
                   razorpayKeySecret, gatewayOrders>>

\* the gateway call's failure is swallowed: the handler goes on to the
\* insert without an order
BadCreateOrderGateway(r) ==
    /\ reqs[r].op = "createDonationOrder"
    /\ reqs[r].pc \in {"findEvent", "createOrder"}
    /\ IF reqs[r].pc = "findEvent"
       THEN /\ reqs' = [reqs EXCEPT ![r] =
                  IF /\ reqs[r].eventId \in DOMAIN events
                     /\ events[reqs[r].eventId].adminId = reqs[r].adminId
                     /\ events[reqs[r].eventId].isActive
                  THEN [reqs[r] EXCEPT !.pc = "createOrder"]
                  ELSE Finish(r, "400 event")]
            /\ UNCHANGED gatewayOrders
       ELSE \/ /\ razorpayKeySecret # Null
               /\ gatewayOrders' = gatewayOrders + 1
               /\ reqs' = [reqs EXCEPT ![r] =
                            [reqs[r] EXCEPT !.pc = "insert",
                                !.orderId = NumStored + gatewayOrders + 1]]
            \/ /\ UNCHANGED gatewayOrders
               /\ reqs' = [reqs EXCEPT ![r] = [reqs[r] EXCEPT !.pc = "insert"]]
    /\ UNCHANGED <<otpVars, donations, events, favorites, userActive, razorpayKeySecret>>

\* lines 42-50: Event.findOne({id, adminId, isActive}) when an eventId is
\* present, else razorpayService.createOrder; the gateway call throws when
\* the credentials are unset or the remote call fails.
CreateOrderGateway(r) ==
    /\ reqs[r].op = "createDonationOrder"
    /\ reqs[r].pc \in {"findEvent", "createOrder"}
    /\ IF reqs[r].pc = "findEvent"
       THEN /\ reqs' = [reqs EXCEPT ![r] =
                  IF /\ reqs[r].eventId \in DOMAIN events
                     /\ events[reqs[r].eventId].adminId = reqs[r].adminId
                     /\ events[reqs[r].eventId].isActive
                  THEN [reqs[r] EXCEPT !.pc = "createOrder"]
                  ELSE Finish(r, "400 event")]
            /\ UNCHANGED gatewayOrders
       ELSE \/ /\ razorpayKeySecret # Null
               /\ gatewayOrders' = gatewayOrders + 1
               /\ reqs' = [reqs EXCEPT ![r] =
                            [reqs[r] EXCEPT !.pc = "insert",
                                !.orderId = NumStored + gatewayOrders + 1]]
            \/ /\ UNCHANGED gatewayOrders
               /\ reqs' = [reqs EXCEPT ![r] = Finish(r, "500")]
    /\ UNCHANGED <<otpVars, donations, events, favorites, userActive, razorpayKeySecret>>

\* the insert is issued twice for the one gateway order
BadCreateOrderInsert(r) ==
    /\ reqs[r].op = "createDonationOrder" /\ reqs[r].pc = "insert"
    /\ \/ /\ donations' = Append(Append(donations,
                 DonationRow(reqs[r].devoteeId, reqs[r].adminId, reqs[r].eventId,
                             reqs[r].amount, reqs[r].orderId)),
                 DonationRow(reqs[r].devoteeId, reqs[r].adminId, reqs[r].eventId,
                             reqs[r].amount, reqs[r].orderId))
          /\ reqs' = [reqs EXCEPT ![r] =
                        [reqs[r] EXCEPT !.pc = "done", !.result = "201",
                                        !.idx = Len(donations) + 1]]
       \/ /\ UNCHANGED donations
          /\ reqs' = [reqs EXCEPT ![r] = Finish(r, "500")]
    /\ UNCHANGED <<otpVars, events, favorites, userActive, razorpayKeySecret, gatewayOrders>>

\* lines 52-78: Donation.create({... status: PENDING}) and the 201 response
CreateOrderInsert(r) ==
    /\ reqs[r].op = "createDonationOrder" /\ reqs[r].pc = "insert"
    /\ \/ /\ donations' = Append(donations,
                 DonationRow(reqs[r].devoteeId, reqs[r].adminId, reqs[r].eventId,
                             reqs[r].amount, reqs[r].orderId))
          /\ reqs' = [reqs EXCEPT ![r] =
                        [reqs[r] EXCEPT !.pc = "done", !.result = "201",
                                        !.idx = Len(donations) + 1]]
       \/ /\ UNCHANGED donations
          /\ reqs' = [reqs EXCEPT ![r] = Finish(r, "500")]
    /\ UNCHANGED <<otpVars, events, favorites, userActive, razorpayKeySecret, gatewayOrders>>

\* --------------------------------------- setFavorites / updateFavorites

\* lines 226-244: validation and User.findAll({id: adminIds, role, isActive})
SetFavoritesFindAdmins(r) ==
    /\ CanStart(r)
    /\ \E dev \in Devotees, ids \in AdminIdLists :
         LET v == validateAdminIds(ids)
             me == [IdleReq EXCEPT !.op = "setFavorites", !.devoteeId = dev,
                                   !.adminIds = v.value]
             admins == {a \in Admins : userActive[a]
                                       /\ \E k \in DOMAIN v.value : v.value[k] = a}
         IN
         IF ~v.valid
         THEN reqs' = [reqs EXCEPT ![r] = [me EXCEPT !.pc = "done", !.result = "422"]]
         ELSE IF Cardinality(admins) # Len(v.value)
         THEN reqs' = [reqs EXCEPT ![r] =
                         [me EXCEPT !.pc = "done", !.result = "400 organization"]]
         ELSE reqs' = [reqs EXCEPT ![r] = [me EXCEPT !.pc = "destroy"]]
    /\ UNCHANGED <<otpVars, donations, events, favorites, userActive,
                   razorpayKeySecret, gatewayOrders>>

\* line 246: DevoteeFavorite.destroy({ where: { devoteeId } })
SetFavoritesDestroy(r) ==
    /\ reqs[r].op = "setFavorites" /\ reqs[r].pc = "destroy"
    /\ favorites' = {f \in favorites : f.devoteeId # reqs[r].devoteeId}
    /\ reqs' = [reqs EXCEPT ![r] = [reqs[r] EXCEPT !.pc = "bulkCreate"]]
    /\ UNCHANGED <<otpVars, donations, events, userActive, razorpayKeySecret, gatewayOrders>>

\* lines 248-273: DevoteeFavorite.bulkCreate(toCreate), one INSERT that the
\* unique index on (devotee_id, admin_id) rejects as a whole; then the
\* response listing.
SetFavoritesBulkCreate(r) ==
    /\ reqs[r].op = "setFavorites" /\ reqs[r].pc = "bulkCreate"
    /\ LET toCreate == {[devoteeId |-> reqs[r].devoteeId,
                         adminId |-> reqs[r].adminIds[k],
                         displayOrder |-> k] : k \in DOMAIN reqs[r].adminIds}
       IN IF \E n \in toCreate : FavoriteRows(n.devoteeId, n.adminId) # {}
          THEN /\ UNCHANGED favorites
               /\ reqs' = [reqs EXCEPT ![r] = Finish(r, "500")]
          ELSE /\ favorites' = favorites \cup toCreate
               /\ reqs' = [reqs EXCEPT ![r] = Finish(r, "200")]
    /\ UNCHANGED <<otpVars, donations, events, userActive, razorpayKeySecret, gatewayOrders>>

\* -------------------------------------- createWalkInCashDonation handler

\* amounts of the walk-in form, in hundredths of a rupee
WalkInAmounts == {0, 150}

\* eventId of the walk-in form: absent, or the id of an event
WalkInEventInputs == EventIds \cup {Null}

\* lines 336-382: the admin is the authenticated user (authenticate rejects
\* a deactivated account), mobile and amount are validated, and
\* Devotee.findOne({ mobile }) finds the devotee; the mobiles presented
\* are those of the registered devotees, whose profile columns are not
\* part of the state.
WalkInFindDevotee(r) ==
    /\ CanStart(r)
    /\ \E adm \in DOMAIN userActive, dev \in Devotees, amt \in WalkInAmounts,
          ev \in WalkInEventInputs :
         /\ userActive[adm]
         /\ LET me == [IdleReq EXCEPT !.op = "createWalkInCashDonation",
                          !.adminId = adm, !.devoteeId = dev, !.amount = amt,
                          !.bodyEventId = ev, !.eventId = ev]
            IN IF amt <= 0
               THEN reqs' = [reqs EXCEPT ![r] =
                               [me EXCEPT !.pc = "done", !.result = "422"]]
               ELSE reqs' = [reqs EXCEPT ![r] = [me EXCEPT !.pc = "findOrCreate"]]
    /\ UNCHANGED <<otpVars, donations, events, favorites, userActive,
                   razorpayKeySecret, gatewayOrders>>

\* lines 385-388: DevoteeFavorite.findOrCreate({ where: { devoteeId,
\* adminId }, defaults: { displayOrder: 1 } }), one transaction
WalkInFindOrCreateFavorite(r) ==
    /\ reqs[r].op = "createWalkInCashDonation" /\ reqs[r].pc = "findOrCreate"
    /\ favorites' =
          IF FavoriteRows(reqs[r].devoteeId, reqs[r].adminId) # {}
          THEN favorites
          ELSE favorites \cup {[devoteeId |-> reqs[r].devoteeId,
                                adminId |-> reqs[r].adminId,
                                displayOrder |-> 1]}
    /\ reqs' = [reqs EXCEPT ![r] = [reqs[r] EXCEPT !.pc = "create"]]
    /\ UNCHANGED <<otpVars, donations, events, userActive, razorpayKeySecret, gatewayOrders>>

\* lines 391-412: Donation.create({..., eventId: eventId || null, status:
\* CAPTURED, razorpayOrderId: null, ...}) and the 201 response; the
\* event_id foreign key rejects the id of no event.
WalkInCreate(r) ==
    /\ reqs[r].op = "createWalkInCashDonation" /\ reqs[r].pc = "create"
    /\ \/ /\ reqs[r].eventId = Null \/ reqs[r].eventId \in DOMAIN events
          /\ donations' = Append(donations,
                 [DonationRow(reqs[r].devoteeId, reqs[r].adminId,
                              reqs[r].eventId, reqs[r].amount, Null)
                     EXCEPT !.status = CAPTURED])
          /\ reqs' = [reqs EXCEPT ![r] =
                        [reqs[r] EXCEPT !.pc = "done", !.result = "201",
                                        !.idx = Len(donations) + 1]]
       \/ /\ UNCHANGED donations
          /\ reqs' = [reqs EXCEPT ![r] = Finish(r, "500")]
    /\ UNCHANGED <<otpVars, events, favorites, userActive, razorpayKeySecret, gatewayOrders>>

\* ------------------------------------------------------- getStats handler

\* the status filter of the query is missing
BadStatsRows(devoteeId) ==
    {i \in DOMAIN donations : donations[i].devoteeId = devoteeId}

\* lines 228-232: the rows where { devoteeId, status: CAPTURED }
StatsRows(devoteeId) ==
    {i \in DOMAIN donations : /\ donations[i].devoteeId = devoteeId
                              /\ donations[i].status = CAPTURED}

\* line 235: SUM(amount) over the rows, in hundredths of a rupee
RECURSIVE SumAmount(_)
SumAmount(rows) ==
    IF rows = {} THEN 0
    ELSE LET i == CHOOSE j \in rows : TRUE
         IN donations[i].amount + SumAmount(rows \ {i})

\* lines 224-252: one aggregate query (COUNT(id), SUM(amount)) and the
\* response; totalAmountPaise is Math.round(totalAmountRupees * 100)
GetStats(r) ==
    /\ CanStart(r)
    /\ \E dev \in Devotees :
         reqs' = [reqs EXCEPT ![r] =
                    [IdleReq EXCEPT !.op = "getStats", !.devoteeId = dev,
                        !.pc = "done", !.result = "200",
                        !.totalDonations = Cardinality(StatsRows(dev)),
                        !.totalAmountPaise = SumAmount(StatsRows(dev))]]
    /\ UNCHANGED <<otpVars, donations, events, favorites, userActive,
                   razorpayKeySecret, gatewayOrders>>

\* ------------------------------------------------- OTP login handlers

\* Devotee.js line 6
OTP_EXPIRY_MINUTES == 10

\* otpService.generateOtp: the random draw is commented out and the
\* function returns '0000'
generateOtp == "0000"

\* the OTPs that verify-otp bodies present ("": none)
OtpInputs == {"", "0000", "1234"}

\* the salts bcrypt.hash draws
Salts == {1, 2}

\* bcrypt.hash(String(otp), SALT_ROUNDS): the digest carries its salt
bcryptHash(otp, salt) == <<otp, salt>>

\* bcrypt.compare(String(otp), hash): hashes otp with the salt of hash
bcryptCompare(otp, hash) == bcryptHash(otp, hash[2]) = hash

\* Devotee.prototype.setOtp, at the minute time
setOtp(otp, salt, time) ==
    [otpHash |-> bcryptHash(otp, salt),
     otpExpiresAt |-> time + OTP_EXPIRY_MINUTES]

\* Devotee.prototype.verifyOtp, lines 91-92: the two tests before the
\* comparison, at the minute time
OtpUsable(row, time) ==
    /\ row.otpHash # <<>> /\ row.otpExpiresAt # Null
    /\ ~(time > row.otpExpiresAt)

\* validateOtp: a string of four digits
validateOtp(otp) == otp # ""

\* sendOtpHandler, lines 27-35: validation and Devotee.findOne({ mobile });
\* the mobiles presented are those of the registered devotees
SendOtpFind(r) ==
    /\ CanStart(r)
    /\ \E dev \in Devotees :
         reqs' = [reqs EXCEPT ![r] =
                    [IdleReq EXCEPT !.op = "sendOtp", !.devoteeId = dev,
                                    !.pc = "save"]]
    /\ UNCHANGED <<otpVars, donations, events, favorites, userActive,
                   razorpayKeySecret, gatewayOrders>>

\* lines 38-49: generateOtp, devotee.setOtp(otp), devotee.save() and the
\* 200 response
SendOtpSave(r) ==
    /\ reqs[r].op = "sendOtp" /\ reqs[r].pc = "save"
    /\ \E salt \in Salts :
         devoteeOtp' = [devoteeOtp EXCEPT ![reqs[r].devoteeId] =
                          setOtp(generateOtp, salt, now)]
    /\ reqs' = [reqs EXCEPT ![r] = [Finish(r, "200") EXCEPT !.otp = generateOtp]]
    /\ UNCHANGED <<now, donations, events, favorites, userActive,
                   razorpayKeySecret, gatewayOrders>>

\* verifyOtp, lines 62-74: validation, Devotee.findOne({ mobile }), which
\* gives the handler its own copy of the row, and the tests of
\* devotee.verifyOtp that precede the comparison
VerifyOtpFind(r) ==
    /\ CanStart(r)
    /\ \E dev \in Devotees, otp \in OtpInputs :
         LET row == devoteeOtp[dev]
             me == [IdleReq EXCEPT !.op = "verifyOtp", !.devoteeId = dev,
                       !.otp = otp, !.otpHash = row.otpHash,
                       !.otpExpiresAt = row.otpExpiresAt]
         IN
         IF ~validateOtp(otp)
         THEN reqs' = [reqs EXCEPT ![r] =
                         [IdleReq EXCEPT !.op = "verifyOtp", !.devoteeId = dev,
                                         !.pc = "done", !.result = "422"]]
         ELSE IF ~OtpUsable(row, now)
         THEN reqs' = [reqs EXCEPT ![r] = [me EXCEPT !.pc = "done", !.result = "401"]]
         ELSE reqs' = [reqs EXCEPT ![r] = [me EXCEPT !.pc = "compare"]]
    /\ UNCHANGED <<otpVars, donations, events, favorites, userActive,
                   razorpayKeySecret, gatewayOrders>>

\* Devotee.js line 93 and lines 75-77: bcrypt.compare on the handler's copy
\* of the row
VerifyOtpCompare(r) ==
    /\ reqs[r].op = "verifyOtp" /\ reqs[r].pc = "compare"
    /\ reqs' = [reqs EXCEPT ![r] =
                  IF bcryptCompare(reqs[r].otp, reqs[r].otpHash)
                  THEN [reqs[r] EXCEPT !.pc = "save"]
                  ELSE Finish(r, "401")]
    /\ UNCHANGED <<otpVars, donations, events, favorites, userActive,
                   razorpayKeySecret, gatewayOrders>>

\* lines 79-89: otpHash and otpExpiresAt are set to null, devotee.save(),
\* and the response with the token
VerifyOtpSave(r) ==
    /\ reqs[r].op = "verifyOtp" /\ reqs[r].pc = "save"
    /\ devoteeOtp' = [devoteeOtp EXCEPT ![reqs[r].devoteeId] = NoOtp]
    /\ reqs' = [reqs EXCEPT ![r] = Finish(r, "200")]
    /\ UNCHANGED <<now, donations, events, favorites, userActive,
                   razorpayKeySecret, gatewayOrders>>

\* the clock moves on by a minute or by the lifetime of an OTP
Tick ==
    /\ \E d \in {1, OTP_EXPIRY_MINUTES} :
         /\ now + d <= MaxNow
         /\ now' = now + d
    /\ UNCHANGED <<devoteeOtp, donations, events, favorites, userActive,
                   razorpayKeySecret, gatewayOrders, reqs>>

\* ------------------------------------------------------- admin handlers

\* bodies of PUT /events/:id: isActive, and raisedAmountPaise absent (Null)
\* or 500
UpdateEventBodies == [isActive : BOOLEAN, raisedAmountPaise : {Null, 500}]

\* raisedAmountPaise of the body is copied into data
BadValidateUpdateEvent(body) ==
    [isActive |-> body.isActive, raisedAmountPaise |-> body.raisedAmountPaise]

\* eventValidator.validateUpdateEvent: data holds the keys the validator
\* copies from the body (Null: the key is not in data); of the fields
\* modelled that is isActive, as Boolean(body.isActive), and never
\* raisedAmountPaise.
validateUpdateEvent(body) ==
    [isActive |-> body.isActive, raisedAmountPaise |-> Null]

\* eventController.updateEvent: Event.findOne({id, adminId}) and
\* event.update(validateUpdateEvent(body).data).
UpdateEvent(e) ==
    /\ userActive[events[e].adminId]
    /\ \E body \in UpdateEventBodies :
         LET data == validateUpdateEvent(body)
         IN events' = [events EXCEPT
                          ![e].isActive = data.isActive,
                          ![e].raisedAmountPaise =
                              IF data.raisedAmountPaise = Null THEN @
                              ELSE data.raisedAmountPaise]
    /\ events' # events
    /\ UNCHANGED <<otpVars, donations, favorites, userActive, razorpayKeySecret,
                   gatewayOrders, reqs>>

\* bodies of POST /events: a title (Null: missing), and raisedAmountPaise
\* absent (Null) or 500
CreateEventBodies == [title : {Null, 1}, raisedAmountPaise : {Null, 500}]

\* eventValidator.validateCreateEvent: the title is required; data is built
\* field by field and its raisedAmountPaise is the literal 0.
validateCreateEvent(body) ==
    IF body.title = Null
    THEN [valid |-> FALSE, raisedAmountPaise |-> Null]
    ELSE [valid |-> TRUE, raisedAmountPaise |-> 0]

\* eventController.createEvent, lines 290-313: validation and the lookup
\* of an active event of the admin with the same title, date and start
\* time created in the last minute (every event has the one title; whether
\* an event is that recent is open).
CreateEventFindDuplicate(r) ==
    /\ CanStart(r)
    /\ \E a \in Admins, body \in CreateEventBodies :
         LET v == validateCreateEvent(body)
             me == [IdleReq EXCEPT !.op = "createEvent", !.adminId = a,
                                   !.bodyRaised = body.raisedAmountPaise]
             similar == {e \in DOMAIN events : events[e].adminId = a
                                               /\ events[e].isActive}
         IN
         /\ userActive[a]
         /\ IF ~v.valid
            THEN reqs' = [reqs EXCEPT ![r] = [me EXCEPT !.pc = "done", !.result = "422"]]
            ELSE \E duplicate \in (IF similar = {} THEN {FALSE} ELSE BOOLEAN) :
                 IF duplicate
                 THEN reqs' = [reqs EXCEPT ![r] =
                                 [me EXCEPT !.pc = "done", !.result = "409"]]
                 ELSE reqs' = [reqs EXCEPT ![r] =
                                 [me EXCEPT !.pc = "create",
                                            !.currentRaised = v.raisedAmountPaise]]
    /\ UNCHANGED <<otpVars, donations, events, favorites, userActive,
                   razorpayKeySecret, gatewayOrders>>

\* lines 315-325: Event.create({ adminId, ...validation.data }); the row
\* gets the next id and the model's default isActive
CreateEventCreate(r) ==
    /\ reqs[r].op = "createEvent" /\ reqs[r].pc = "create"
    /\ LET id == Cardinality(DOMAIN events) + 1
           row == [adminId |-> reqs[r].adminId,
                   raisedAmountPaise |-> reqs[r].currentRaised,
                   isActive |-> TRUE]
       IN /\ events' = [e \in DOMAIN events \cup {id} |->
                           IF e \in DOMAIN events THEN events[e] ELSE row]
          /\ reqs' = [reqs EXCEPT ![r] = [Finish(r, "201") EXCEPT !.eventId = id]]
    /\ UNCHANGED <<otpVars, donations, favorites, userActive, razorpayKeySecret, gatewayOrders>>

\* eventController.deleteEvent: event.update({ isActive: false })
DeleteEvent(e) ==
    /\ userActive[events[e].adminId]
    /\ events[e].isActive
    /\ events' = [events EXCEPT ![e].isActive = FALSE]
    /\ UNCHANGED <<otpVars, donations, favorites, userActive, razorpayKeySecret,
                   gatewayOrders, reqs>>

\* adminController.deleteProfile: user.update({ isActive: false })
DeleteProfile(a) ==
    /\ userActive[a]
    /\ userActive' = [userActive EXCEPT ![a] = FALSE]
    /\ UNCHANGED <<otpVars, donations, events, favorites, razorpayKeySecret,
                   gatewayOrders, reqs>>

\* the arriving request is for the order's first payment
FirstPayment(r) == reqs'[r].paymentId = 1

\* the arriving request names no event
NoEventChosen(r) == reqs'[r].bodyEventId = Null

\* the arriving request is for an amount just below Rs 1 or of Rs 1.005
UsualAmount(r) == reqs'[r].bodyAmount \in {999, 1005}

\* the arriving request is about devotee 1 and passes validation; an
\* order is for Rs 1
LedgerClient(r) ==
    /\ reqs'[r].devoteeId = 1
    /\ reqs'[r].result # "422"
    /\ reqs'[r].bodyAmount \in {Null, 1000}

\* the verification flow (one payment per order), with the admin's event
\* maintenance beside it
Next ==
    \/ \E r \in Slots :
        \/ VerifyFind(r) /\ FirstPayment(r)
        \/ VerifyMarkFailed(r)
        \/ VerifyCapture(r)
        \/ VerifyFindEvent(r)
        \/ VerifyCreditEvent(r)
        \/ VerifyStorageError(r)
    \/ \E e \in EventIds : DeleteEvent(e) \/ UpdateEvent(e)

Spec == Init /\ [][Next]_vars

\* order creation (for the organization as a whole), with the favorites and
\* the organizations changing beside it
NextOrder ==
    \/ \E r \in Slots :
        \/ CreateOrderFindFavorite(r) /\ NoEventChosen(r) /\ UsualAmount(r)
        \/ CreateOrderFindAdmin(r)
        \/ CreateOrderGateway(r)
        \/ CreateOrderInsert(r)
        \/ SetFavoritesFindAdmins(r)
        \/ SetFavoritesDestroy(r)
        \/ SetFavoritesBulkCreate(r)
    \/ \E a \in Admins : DeleteProfile(a)

SpecOrder == Init /\ [][NextOrder]_vars

\* the donations ledger: every handler that writes a donation row
NextLedger ==
    \E r \in Slots :
        \/ CreateOrderFindFavorite(r) /\ LedgerClient(r)
        \/ CreateOrderFindAdmin(r)
        \/ CreateOrderGateway(r)
        \/ CreateOrderInsert(r)
        \/ VerifyFind(r) /\ LedgerClient(r)
        \/ VerifyMarkFailed(r)
        \/ VerifyCapture(r)
        \/ VerifyFindEvent(r)
        \/ VerifyCreditEvent(r)
        \/ VerifyStorageError(r)
        \/ WalkInFindDevotee(r) /\ LedgerClient(r)
        \/ WalkInFindOrCreateFavorite(r)
        \/ WalkInCreate(r)

\* the gateway credentials are configured and the stored orders are of
\* Rs 1.00 each
InitLedger ==
    /\ Init
    /\ razorpayKeySecret # Null
    /\ \A i \in DOMAIN donations : donations[i].amount = 100

SpecLedger == InitLedger /\ [][NextLedger]_vars

\* the organizations of the favorites specification: one more than a
\* devotee may have as favorites
Organizations == 1..(MAX_FAVORITES + 1)

\* devotee 1 has set five favorites, the organizations 1..5
InitFavorites ==
    /\ \E s \in StoredDonations :
          donations = [i \in 1..NumStored |-> DonationRow(1, 1, 1, s[i], i)]
    /\ events = [e \in EventIds |->
                    [adminId |-> 1, raisedAmountPaise |-> 0, isActive |-> TRUE]]
    /\ favorites = {[devoteeId |-> 1, adminId |-> a, displayOrder |-> a] :
                        a \in 1..MAX_FAVORITES}
    /\ userActive = [a \in Organizations |-> TRUE]
    /\ razorpayKeySecret = 7
    /\ gatewayOrders = 0
    /\ devoteeOtp = [d \in Devotees |-> NoOtp]
    /\ now = 0
    /\ reqs = [r \in Slots |-> IdleReq]

\* the favorites table: the devotee's own list and the admins' walk-in
\* entries
NextFavorites ==
    \E r \in Slots :
        \/ SetFavoritesFindAdmins(r)
        \/ SetFavoritesDestroy(r)
        \/ SetFavoritesBulkCreate(r)
        \/ WalkInFindDevotee(r)
        \/ WalkInFindOrCreateFavorite(r)
        \/ WalkInCreate(r)

SpecFavorites == InitFavorites /\ [][NextFavorites]_vars

\* order creation alone, for every amount of the request bodies
NextAmount ==
    \E r \in Slots :
        \/ CreateOrderFindFavorite(r) /\ NoEventChosen(r)
        \/ CreateOrderFindAdmin(r)
        \/ CreateOrderGateway(r)
        \/ CreateOrderInsert(r)

SpecAmount == Init /\ [][NextAmount]_vars

\* verification of devotee 1's orders while the devotee replaces the
\* favorites and the organizations and events are deactivated
NextCapture ==
    \/ \E r \in Slots :
        \/ VerifyFind(r) /\ LedgerClient(r) /\ FirstPayment(r)
        \/ VerifyMarkFailed(r)
        \/ VerifyCapture(r)
        \/ VerifyFindEvent(r)
        \/ VerifyCreditEvent(r)
        \/ VerifyStorageError(r)
        \/ SetFavoritesFindAdmins(r) /\ LedgerClient(r)
        \/ SetFavoritesDestroy(r)
        \/ SetFavoritesBulkCreate(r)
    \/ \E a \in Admins : DeleteProfile(a)
    \/ \E e \in EventIds : DeleteEvent(e)

SpecCapture == InitLedger /\ [][NextCapture]_vars

\* the writers of the events table: the admins' event handlers, with order
\* creation and verification for devotee 1
NextEvents ==
    \/ \E r \in Slots :
        \/ CreateEventFindDuplicate(r)
        \/ CreateEventCreate(r)
        \/ CreateOrderFindFavorite(r) /\ LedgerClient(r)
        \/ CreateOrderFindAdmin(r)
        \/ CreateOrderGateway(r)
        \/ CreateOrderInsert(r)
        \/ VerifyFind(r) /\ LedgerClient(r) /\ FirstPayment(r)
        \/ VerifyMarkFailed(r)
        \/ VerifyCapture(r)
        \/ VerifyFindEvent(r)
        \/ VerifyCreditEvent(r)
        \/ VerifyStorageError(r)
    \/ \E e \in DOMAIN events : DeleteEvent(e) \/ UpdateEvent(e)

SpecEvents == InitLedger /\ [][NextEvents]_vars

\* the arriving request passes validation; an order is for Rs 1
StatsClient(r) ==
    /\ reqs'[r].result # "422"
    /\ reqs'[r].bodyAmount \in {Null, 1000}

\* the devotees' statistics beside everything that writes donation rows
NextStats ==
    \E r \in Slots :
        \/ GetStats(r)
        \/ CreateOrderFindFavorite(r) /\ StatsClient(r)
        \/ CreateOrderFindAdmin(r)
        \/ CreateOrderGateway(r)
        \/ CreateOrderInsert(r)
        \/ VerifyFind(r) /\ StatsClient(r) /\ FirstPayment(r)
        \/ VerifyMarkFailed(r)
        \/ VerifyCapture(r)
        \/ VerifyFindEvent(r)
        \/ VerifyCreditEvent(r)
        \/ VerifyStorageError(r)
        \/ WalkInFindDevotee(r) /\ StatsClient(r)
        \/ WalkInFindOrCreateFavorite(r)
        \/ WalkInCreate(r)

SpecStats == InitLedger /\ [][NextStats]_vars

\* devotee 1 has been sent an OTP at minute 0
InitOtp ==
    /\ donations = [i \in 1..NumStored |-> DonationRow(1, 1, 1, 100, i)]
    /\ events = [e \in EventIds |->
                    [adminId |-> 1, raisedAmountPaise |-> 0, isActive |-> TRUE]]
    /\ favorites = {[devoteeId |-> 1, adminId |-> 1, displayOrder |-> 1]}
    /\ userActive = [a \in Admins |-> TRUE]
    /\ razorpayKeySecret = 7
    /\ gatewayOrders = 0
    /\ devoteeOtp = [d \in Devotees |->
                        IF d = 1 THEN setOtp(generateOtp, 1, 0) ELSE NoOtp]
    /\ now = 0
    /\ reqs = [r \in Slots |-> IdleReq]

\* the OTP login, with the clock
NextOtp ==
    \/ \E r \in Slots :
        \/ SendOtpFind(r)
        \/ SendOtpSave(r)
        \/ VerifyOtpFind(r)
        \/ VerifyOtpCompare(r)
        \/ VerifyOtpSave(r)
    \/ Tick

SpecOtp == InitOtp /\ [][NextOtp]_vars

\* ------------------------------------------------------------- helpers

IsVerify(r) == reqs[r].op = "verifyDonation"

\* the request carries the signature the gateway issues for its order and
\* payment
ValidArgs(r) ==
    /\ razorpayKeySecret # Null
    /\ reqs[r].signature = Hmac(razorpayKeySecret, reqs[r].orderId, reqs[r].paymentId)

SameArgs(r1, r2) ==
    /\ reqs[r1].devoteeId = reqs[r2].devoteeId
    /\ reqs[r1].orderId = reqs[r2].orderId
    /\ reqs[r1].paymentId = reqs[r2].paymentId
    /\ reqs[r1].signature = reqs[r2].signature

Terminal(status) == status \in {CAPTURED, FAILED}

\* -------------------------------------------------------------- claims

\* C1: a donation's stored status, once captured or failed, is never
\* written to a different status by any step of any interleaving.
C1_TerminalStatusNeverRewritten ==
    [][\A i \in DOMAIN donations :
          Terminal(donations[i].status)
              => donations'[i].status = donations[i].status]_vars

RowsOf(orderId, devoteeId) ==
    {i \in DOMAIN donations : /\ donations[i].razorpayOrderId = orderId
                              /\ donations[i].devoteeId = devoteeId}

\* the step is the arrival of request r, a verifyDonation that passes
\* validation
VerifyArrives(r) ==
    /\ reqs[r].pc = "idle"
    /\ reqs'[r].op = "verifyDonation"
    /\ reqs'[r].orderId # Null /\ reqs'[r].paymentId # Null
    /\ reqs'[r].signature # Null

\* no request other than r has worked on donation row i
OnlyUser(r, i) == \A q \in Slots \ {r} : reqs[q].idx # i

\* C4: a verifyDonation that arrives after an identical, valid one has
\* returned success (no other request working on the row) returns success
\* with the same captured donation and writes neither the donation row nor
\* the event.
C4_SequentialReplayIsNoOp ==
    [][\A r1, r2 \in Slots :
          ( /\ r1 # r2
            /\ IsVerify(r1) /\ reqs[r1].pc = "done" /\ reqs[r1].result = "200"
            /\ ValidArgs(r1)
            /\ OnlyUser(r1, reqs[r1].idx)
            /\ VerifyArrives(r2)
            /\ reqs'[r2].devoteeId = reqs[r1].devoteeId
            /\ reqs'[r2].orderId = reqs[r1].orderId
            /\ reqs'[r2].paymentId = reqs[r1].paymentId
            /\ reqs'[r2].signature = reqs[r1].signature )
          => /\ reqs'[r2].pc = "done"
             /\ reqs'[r2].result = "200 already"
             /\ reqs'[r2].idx = reqs[r1].idx
             /\ donations[reqs[r1].idx].status = CAPTURED
             /\ donations' = donations
             /\ events' = events]_vars

C4_Witness ==
    \E r1, r2 \in Slots :
        /\ r1 # r2 /\ IsVerify(r1) /\ IsVerify(r2)
        /\ SameArgs(r1, r2) /\ ValidArgs(r1)
        /\ reqs[r1].result = "200" /\ reqs[r2].result = "200 already"
        /\ reqs[r2].idx = reqs[r1].idx
        /\ events[reqs[r1].eventId].raisedAmountPaise
              = donationAmountPaise(donations[reqs[r1].idx].amount)

\* C6 as stated: status becomes failed only in the write of a request whose
\* signature check returned false, and a request whose signature check
\* threw, whose payment-details fetch failed or whose capture write threw
\* leaves the stored status pending (no other request working on the row).
C6_ErrorsLeavePending ==
    [][/\ \A i \in DOMAIN donations :
             (donations[i].status # FAILED /\ donations'[i].status = FAILED)
             => \E r \in Slots :
                   /\ IsVerify(r) /\ reqs[r].idx = i
                   /\ reqs[r].pc = "markFailed" /\ reqs'[r].pc = "done"
                   /\ razorpayKeySecret # Null
                   /\ reqs[r].signature
                         # Hmac(razorpayKeySecret, reqs[r].orderId, reqs[r].paymentId)
       /\ \A r \in Slots :
             ( /\ reqs'[r].op = "verifyDonation" /\ reqs'[r].seen = PENDING
               /\ OnlyUser(r, reqs'[r].idx)
               /\ \/ reqs'[r].result = "500" /\ reqs[r].pc \in {"idle", "capture"}
                  \/ reqs'[r].fetchThrew )
             => donations'[reqs'[r].idx].status = PENDING]_vars

\* C6 amended: status becomes failed only in the write of a request whose
\* signature check returned false; a request whose signature check throws
\* or whose capture write throws writes nothing to the donation, and a
\* failed payment-details fetch is swallowed: the request goes on to the
\* capture write, and what it then writes is captured, never failed.
C6_FailedOnlyOnSignatureMismatch ==
    [][/\ \A i \in DOMAIN donations :
             (donations[i].status # FAILED /\ donations'[i].status = FAILED)
             => \E r \in Slots :
                   /\ IsVerify(r) /\ reqs[r].idx = i
                   /\ reqs[r].pc = "markFailed" /\ reqs'[r].pc = "done"
                   /\ razorpayKeySecret # Null
                   /\ reqs[r].signature
                         # Hmac(razorpayKeySecret, reqs[r].orderId, reqs[r].paymentId)
       /\ \A r \in Slots :
             (reqs'[r].op = "verifyDonation" /\ reqs'[r].result = "500"
                 /\ reqs[r].result # "500")
             => donations' = donations
       /\ \A r \in Slots :
             (VerifyArrives(r) /\ reqs'[r].seen = PENDING
                 /\ razorpayKeySecret = Null)
             => reqs'[r].result = "500"
       /\ \A r \in Slots :
             (VerifyArrives(r) /\ reqs'[r].fetchThrew)
             => reqs'[r].pc = "capture" /\ donations' = donations
       /\ \A r \in Slots :
             (IsVerify(r) /\ reqs[r].fetchThrew /\ reqs[r].pc = "capture"
                 /\ reqs'[r].pc # "capture" /\ reqs'[r].result # "500")
             => donations'[reqs[r].idx].status = CAPTURED]_vars

\* a swallowed fetch failure was followed by capture, and a signature
\* mismatch by failed
C6_Witness ==
    \E r, q \in Slots :
        /\ IsVerify(r) /\ reqs[r].fetchThrew /\ reqs[r].result = "200"
        /\ donations[reqs[r].idx].status = CAPTURED
        /\ IsVerify(q) /\ reqs[q].result = "400 signature"
        /\ donations[reqs[q].idx].status = FAILED

\* C7: a verifyDonation that arrives when the donation of its order is
\* failed returns the payment-failed error in that step, changing neither
\* the donation rows nor the events, also with a valid signature; a request
\* that has returned does nothing further.
C7_FailedIsFinalForLaterRequests ==
    [][/\ \A r \in Slots :
             ( /\ VerifyArrives(r)
               /\ RowsOf(reqs'[r].orderId, reqs'[r].devoteeId) # {}
               /\ \A i \in RowsOf(reqs'[r].orderId, reqs'[r].devoteeId) :
                      donations[i].status = FAILED )
             => /\ reqs'[r].pc = "done"
                /\ reqs'[r].result = "400 failed"
                /\ donations' = donations
                /\ events' = events
       /\ \A r \in Slots : reqs[r].pc = "done" => reqs'[r] = reqs[r]]_vars

C7_Witness ==
    \E r \in Slots :
        /\ IsVerify(r) /\ ValidArgs(r)
        /\ reqs[r].seen = FAILED /\ reqs[r].result = "400 failed"
        /\ donations[reqs[r].idx].status = FAILED
        /\ donations[reqs[r].idx].razorpayPaymentId = Null

\* C8: a verifyDonation that finds its donation pending and whose signature
\* does not verify goes to the failed write without touching anything; that
\* write returns the invalid-signature error, changes nothing but the
\* row's status, which it sets to failed, and leaves the events alone; a
\* row that is pending when it is written has payment id and signature
\* null afterwards.
C8_BadSignatureMarksFailed ==
    [][/\ \A r \in Slots :
             ( /\ VerifyArrives(r)
               /\ razorpayKeySecret # Null
               /\ reqs'[r].signature
                     # Hmac(razorpayKeySecret, reqs'[r].orderId, reqs'[r].paymentId)
               /\ RowsOf(reqs'[r].orderId, reqs'[r].devoteeId) # {}
               /\ \A i \in RowsOf(reqs'[r].orderId, reqs'[r].devoteeId) :
                      donations[i].status = PENDING )
             => /\ reqs'[r].pc = "markFailed"
                /\ donations' = donations /\ events' = events
       /\ \A r \in Slots :
             ( /\ IsVerify(r) /\ reqs[r].pc = "markFailed"
               /\ reqs'[r].pc = "done" /\ reqs'[r].result # "500" )
             => /\ reqs'[r].result = "400 signature"
                /\ donations' = [donations EXCEPT ![reqs[r].idx].status = FAILED]
                /\ events' = events
                /\ donations[reqs[r].idx].status = PENDING
                   => /\ donations'[reqs[r].idx].razorpayPaymentId = Null
                      /\ donations'[reqs[r].idx].razorpaySignature = Null
       /\ \A r \in Slots :
             (IsVerify(r) /\ reqs[r].pc = "markFailed")
             => reqs'[r].pc \in {"markFailed", "done"}]_vars

C8_Witness ==
    \E r \in Slots :
        /\ IsVerify(r) /\ reqs[r].result = "400 signature"
        /\ reqs[r].seen = PENDING
        /\ donations[reqs[r].idx].status = FAILED
        /\ donations[reqs[r].idx].razorpayPaymentId = Null
        /\ donations[reqs[r].idx].razorpaySignature = Null
        /\ events[reqs[r].eventId].raisedAmountPaise = 0

\* C9: a verifyDonation for an order id all of whose donation rows belong to
\* other devotees returns not-found in the step it arrives, changing no
\* donation and no event, also when payment id and signature are valid.
C9_OtherDevoteesOrderNotFound ==
    [][\A r \in Slots :
          ( /\ VerifyArrives(r)
            /\ \E i \in DOMAIN donations :
                   donations[i].razorpayOrderId = reqs'[r].orderId
            /\ \A i \in DOMAIN donations :
                   donations[i].razorpayOrderId = reqs'[r].orderId
                   => donations[i].devoteeId # reqs'[r].devoteeId )
          => /\ reqs'[r].pc = "done"
             /\ reqs'[r].result = "404"
             /\ donations' = donations
             /\ events' = events]_vars

C9_Witness ==
    \E r \in Slots :
        /\ IsVerify(r) /\ ValidArgs(r) /\ reqs[r].result = "404"
        /\ \E i \in DOMAIN donations :
              /\ donations[i].razorpayOrderId = reqs[r].orderId
              /\ donations[i].devoteeId # reqs[r].devoteeId
              /\ donations[i].status = PENDING

\* C10: a createDonationOrder that arrives when the devotee has no favorite
\* row for the organization fails in that step, with no gateway order
\* created and no donation row inserted; a request that has failed so has
\* no gateway order and no donation row.
C10_NotFavoriteFails ==
    [][\A r \in Slots :
          /\ ( /\ reqs[r].pc = "idle"
               /\ reqs'[r].op = "createDonationOrder"
               /\ ~\E f \in favorites : /\ f.devoteeId = reqs'[r].devoteeId
                                        /\ f.adminId = reqs'[r].adminId )
             => /\ reqs'[r].pc = "done"
                /\ reqs'[r].result \in {"422", "400 favorite"}
                /\ gatewayOrders' = gatewayOrders
                /\ donations' = donations
          /\ ( reqs[r].op = "createDonationOrder" /\ reqs[r].pc = "done"
               /\ reqs[r].result = "400 favorite" )
             => /\ reqs'[r] = reqs[r]
                /\ reqs[r].orderId = Null /\ reqs[r].idx = Null]_vars

C10_Witness ==
    \E r \in Slots :
        /\ reqs[r].op = "createDonationOrder"
        /\ reqs[r].result = "400 favorite"
        /\ \E f \in favorites : f.adminId = reqs[r].adminId
        /\ userActive[reqs[r].adminId]
        /\ gatewayOrders = 0
        /\ Len(donations) = NumStored

IsCreateOrder(r) == reqs[r].op = "createDonationOrder"

C12_BadEventIdFails ==
    \A r \in Slots :
        ( /\ IsCreateOrder(r)
          /\ reqs[r].bodyEventId # Null
          /\ ~ ( /\ reqs[r].bodyEventId \in DOMAIN events
                 /\ events[reqs[r].bodyEventId].adminId = reqs[r].adminId
                 /\ events[reqs[r].bodyEventId].isActive ) )
        => /\ reqs[r].pc \notin {"createOrder", "insert"}
           /\ reqs[r].result # "201"
           /\ reqs[r].orderId = Null
           /\ reqs[r].idx = Null

\* C13: a verifyDonation whose signature verified on a pending donation and
\* whose payment-details fetch failed carries on: its capture write sets
\* the row captured with the payment id and signature and with utr and
\* transactionId null, its event steps credit the event with the donation
\* amount, and it returns success (the statements of the database
\* succeeding).
C13_FetchFailureSwallowed ==
    [][\A r \in Slots :
          /\ (VerifyArrives(r) /\ reqs'[r].fetchThrew)
             => /\ reqs'[r].pc = "capture" /\ reqs'[r].seen = PENDING
                /\ reqs'[r].enrich = NoEnrichment
          /\ (IsVerify(r) /\ reqs[r].fetchThrew /\ reqs'[r].result # "500")
             => /\ reqs[r].pc = "capture" /\ reqs'[r].pc # "capture"
                   => /\ donations' = [donations EXCEPT ![reqs[r].idx] =
                             [donations[reqs[r].idx] EXCEPT
                                 !.razorpayPaymentId = reqs[r].paymentId,
                                 !.razorpaySignature = reqs[r].signature,
                                 !.utr = Null, !.transactionId = Null,
                                 !.status = CAPTURED]]
                      /\ IF reqs[r].eventId # Null
                         THEN reqs'[r].pc = "findEvent"
                         ELSE reqs'[r].result = "200"
                /\ (reqs[r].pc = "findEvent" /\ reqs'[r].pc # "findEvent"
                       /\ reqs[r].eventId \in DOMAIN events)
                   => /\ reqs'[r].pc = "creditEvent"
                      /\ reqs'[r].currentRaised
                            = events[reqs[r].eventId].raisedAmountPaise
                /\ (reqs[r].pc = "creditEvent" /\ reqs'[r].pc # "creditEvent")
                   => /\ reqs'[r].result = "200"
                      /\ events'[reqs[r].eventId].raisedAmountPaise
                            = reqs[r].currentRaised + reqs[r].amount]_vars

\* a request whose fetch failed has returned success: its row is captured
\* without utr and transactionId and its event holds the amount
C13_Witness ==
    \E r \in Slots :
        /\ IsVerify(r) /\ reqs[r].fetchThrew /\ reqs[r].result = "200"
        /\ donations[reqs[r].idx].status = CAPTURED
        /\ donations[reqs[r].idx].razorpayPaymentId = reqs[r].paymentId
        /\ donations[reqs[r].idx].utr = Null
        /\ donations[reqs[r].idx].transactionId = Null
        /\ events[reqs[r].eventId].raisedAmountPaise = reqs[r].amount
        /\ reqs[r].amount > 0

C15_PaymentIdSetOnce ==
    [][\A i \in DOMAIN donations :
          /\ donations[i].status \in {PENDING, FAILED}
             => /\ donations[i].razorpayPaymentId = Null
                /\ donations[i].razorpaySignature = Null
          /\ donations[i].razorpayPaymentId # Null
             => /\ donations'[i].razorpayPaymentId = donations[i].razorpayPaymentId
                /\ donations'[i].razorpaySignature = donations[i].razorpaySignature
          /\ (donations[i].razorpayPaymentId = Null
                 /\ donations'[i].razorpayPaymentId # Null)
             => donations'[i].status = CAPTURED]_vars

\* C16: no step of verifyDonation, createDonationOrder or
\* createWalkInCashDonation removes a donation row or changes the
\* razorpayOrderId, devoteeId, adminId or amount of an existing one.
C16_RowIdentityFixed ==
    [][\A i \in DOMAIN donations :
          /\ i \in DOMAIN donations'
          /\ donations'[i].razorpayOrderId = donations[i].razorpayOrderId
          /\ donations'[i].devoteeId = donations[i].devoteeId
          /\ donations'[i].adminId = donations[i].adminId
          /\ donations'[i].amount = donations[i].amount]_vars

\* a stored order was captured by verifyDonation while another handler
\* added a row: the captured row is still the order, devotee and amount
\* the request found
C16_Witness ==
    \E r \in Slots :
        /\ IsVerify(r) /\ reqs[r].result = "200"
        /\ donations[reqs[r].idx].status = CAPTURED
        /\ donations[reqs[r].idx].razorpayPaymentId # Null
        /\ donations[reqs[r].idx].razorpayOrderId = reqs[r].orderId
        /\ donations[reqs[r].idx].devoteeId = reqs[r].devoteeId
        /\ donations[reqs[r].idx].amount = reqs[r].amount
        /\ Len(donations) > NumStored

\* C17: every donation row with a non-null eventId names an event whose
\* adminId is the row's adminId.
C17_EventOfSameOrganization ==
    \A i \in DOMAIN donations :
        donations[i].eventId # Null
        => /\ donations[i].eventId \in DOMAIN events
           /\ events[donations[i].eventId].adminId = donations[i].adminId

\* C18: every devotee has at most 5 favorite rows.
C18_AtMostFiveFavorites ==
    \A d \in Devotees :
        Cardinality({f \in favorites : f.devoteeId = d}) <= MAX_FAVORITES

\* C19: no two donation rows have the same non-null razorpayOrderId, and a
\* createDonationOrder that returned success has exactly one row, its own,
\* for the gateway order it created.
C19_OneRowPerGatewayOrder ==
    /\ \A i, j \in DOMAIN donations :
          (i # j /\ donations[i].razorpayOrderId # Null)
          => donations[i].razorpayOrderId # donations[j].razorpayOrderId
    /\ \A r \in Slots :
          (IsCreateOrder(r) /\ reqs[r].result = "201")
          => /\ reqs[r].orderId # Null
             /\ {i \in DOMAIN donations :
                    donations[i].razorpayOrderId = reqs[r].orderId} = {reqs[r].idx}

\* two orders were created side by side, each with its own row
C19_Witness ==
    \E r, q \in Slots :
        /\ r # q
        /\ IsCreateOrder(r) /\ reqs[r].result = "201"
        /\ IsCreateOrder(q) /\ reqs[q].result = "201"
        /\ reqs[r].orderId # reqs[q].orderId
        /\ reqs[r].idx # reqs[q].idx
        /\ Len(donations) = NumStored + 2

\* C20 as stated: no step removes a donation row, every row a step adds has
\* status pending, and a row's status changes only in a write of a
\* verifyDonation request, to captured or failed.
C20_CreatedPendingNeverDeleted ==
    [][/\ \A i \in DOMAIN donations : i \in DOMAIN donations'
       /\ \A i \in DOMAIN donations' \ DOMAIN donations :
             donations'[i].status = PENDING
       /\ \A i \in DOMAIN donations :
             donations'[i].status # donations[i].status
             => /\ donations'[i].status \in {CAPTURED, FAILED}
                /\ \E r \in Slots :
                      /\ IsVerify(r) /\ reqs[r].idx = i
                      /\ reqs[r].pc \in {"markFailed", "capture"}
                      /\ reqs'[r].pc # reqs[r].pc]_vars

\* C20 amended: no step removes a donation row; a row added by
\* createDonationOrder has status pending and a gateway order id; a row
\* added by createWalkInCashDonation has status captured and no gateway
\* order id; no other step adds a row; and the status of an existing row
\* changes only in a write of a verifyDonation request, to captured or
\* failed.
C20_PendingUnlessWalkIn ==
    [][/\ \A i \in DOMAIN donations : i \in DOMAIN donations'
       /\ \A i \in DOMAIN donations' \ DOMAIN donations :
             \E r \in Slots :
                /\ reqs'[r].idx = i /\ reqs'[r].result = "201"
                /\ \/ /\ IsCreateOrder(r) /\ reqs[r].pc = "insert"
                      /\ donations'[i].status = PENDING
                      /\ donations'[i].razorpayOrderId # Null
                   \/ /\ reqs[r].op = "createWalkInCashDonation"
                      /\ reqs[r].pc = "create"
                      /\ donations'[i].status = CAPTURED
                      /\ donations'[i].razorpayOrderId = Null
                      /\ donations'[i].razorpayPaymentId = Null
       /\ \A i \in DOMAIN donations :
             donations'[i].status # donations[i].status
             => /\ donations'[i].status \in {CAPTURED, FAILED}
                /\ \E r \in Slots :
                      /\ IsVerify(r) /\ reqs[r].idx = i
                      /\ reqs[r].pc \in {"markFailed", "capture"}
                      /\ reqs'[r].pc # reqs[r].pc]_vars

\* a walk-in entry stands captured beside an order that stands pending
C20_Witness ==
    \E r, q \in Slots :
        /\ reqs[r].op = "createWalkInCashDonation" /\ reqs[r].result = "201"
        /\ donations[reqs[r].idx].status = CAPTURED
        /\ donations[reqs[r].idx].razorpayOrderId = Null
        /\ IsCreateOrder(q) /\ reqs[q].result = "201"
        /\ donations[reqs[q].idx].status = PENDING
        /\ Len(donations) = NumStored + 2

\* C23: for a request that finds its donation pending, the signature
\* verdict is a function of the secret and the three arguments alone: it
\* throws (the request ends with the server error) exactly when the secret
\* is unset; with a secret it is true (the request goes on to the capture
\* write) exactly when the signature is the HMAC of orderId|paymentId and
\* false (the request goes on to the failed write) otherwise; and the step
\* that computes it writes neither a donation nor an event.
C23_SignatureVerdict ==
    [][\A r \in Slots :
          (VerifyArrives(r) /\ reqs'[r].seen = PENDING)
          => /\ (reqs'[r].pc = "done" /\ reqs'[r].result = "500")
                   <=> razorpayKeySecret = Null
             /\ reqs'[r].pc = "capture"
                   <=> /\ razorpayKeySecret # Null
                       /\ reqs'[r].signature = Hmac(razorpayKeySecret,
                                                   reqs'[r].orderId, reqs'[r].paymentId)
             /\ reqs'[r].pc = "markFailed"
                   <=> /\ razorpayKeySecret # Null
                       /\ reqs'[r].signature # Hmac(razorpayKeySecret,
                                                   reqs'[r].orderId, reqs'[r].paymentId)
             /\ donations' = donations /\ events' = events
             /\ razorpayKeySecret' = razorpayKeySecret]_vars

\* the verdict was true for one request and false for another that
\* differs from it in the signature alone
C23_Witness ==
    \E r, q \in Slots :
        /\ IsVerify(r) /\ IsVerify(q)
        /\ reqs[r].seen = PENDING /\ reqs[q].seen = PENDING
        /\ reqs[r].pc = "capture" /\ ValidArgs(r)
        /\ reqs[q].pc = "markFailed"
        /\ reqs[q].orderId = reqs[r].orderId
        /\ reqs[q].paymentId = reqs[r].paymentId
        /\ reqs[q].signature # reqs[r].signature

\* C22: when an order of R whole rupees was created against an active event
\* of its organization and a verifyDonation with the valid signature has
\* captured it, no other request having been made, the amount of the
\* gateway order is R x 100 paise and the event's raisedAmountPaise has
\* grown (from 0) by R x 100.
C22_WholeRupeesTimesHundred ==
    \A q, r \in Slots :
        ( /\ IsCreateOrder(q) /\ reqs[q].result = "201"
          /\ reqs[q].bodyAmount % 1000 = 0
          /\ reqs[q].bodyEventId \in DOMAIN events
          /\ events[reqs[q].bodyEventId].adminId = reqs[q].adminId
          /\ events[reqs[q].bodyEventId].isActive
          /\ IsVerify(r) /\ reqs[r].orderId = reqs[q].orderId /\ ValidArgs(r)
          /\ reqs[r].seen = PENDING /\ reqs[r].result = "200"
          /\ \A o \in Slots \ {q, r} : reqs[o].pc = "idle" )
        => /\ amountPaiseOf(reqs[q].amount) = (reqs[q].bodyAmount \div 1000) * 100
           /\ events[reqs[q].bodyEventId].raisedAmountPaise
                 = (reqs[q].bodyAmount \div 1000) * 100

\* C21: the raisedAmountPaise of an existing event changes only in the
\* credit step of a verifyDonation that found the donation pending and
\* carries the gateway's signature, and an event that comes into being has
\* raisedAmountPaise 0: no other step (createEvent, updateEvent,
\* deleteEvent, createDonationOrder, the other paths of verifyDonation)
\* writes the field, whatever the request body holds.
C21_OnlyCaptureWritesRaised ==
    [][\A e \in DOMAIN events' :
          IF e \in DOMAIN events
          THEN events'[e].raisedAmountPaise # events[e].raisedAmountPaise
               => \E r \in Slots :
                     /\ IsVerify(r) /\ reqs[r].pc = "creditEvent"
                     /\ reqs[r].eventId = e /\ reqs[r].seen = PENDING
                     /\ ValidArgs(r)
                     /\ reqs'[r].result = "200"
          ELSE events'[e].raisedAmountPaise = 0]_vars

\* an event created from a body holding raisedAmountPaise 500 stands at 0,
\* beside an event that a capture has credited and that was then
\* deactivated
C21_Witness ==
    /\ \E r \in Slots :
          /\ reqs[r].op = "createEvent" /\ reqs[r].result = "201"
          /\ reqs[r].bodyRaised = 500
          /\ events[reqs[r].eventId].raisedAmountPaise = 0
    /\ \E e \in DOMAIN events : /\ events[e].raisedAmountPaise > 0
                                /\ ~events[e].isActive

\* C24: a verifyDonation that presents the gateway's signature for a
\* pending donation of the devotee goes on to the capture write, and the
\* capture write (unless the database rejects it) leaves the donation
\* captured, whatever the devotee's favorites are by then and whether or
\* not the organization and the event are still active.
C24_NoRecheckAtVerify ==
    [][\A r \in Slots :
          /\ (/\ VerifyArrives(r)
              /\ razorpayKeySecret # Null
              /\ reqs'[r].signature =
                    Hmac(razorpayKeySecret, reqs'[r].orderId, reqs'[r].paymentId)
              /\ \E i \in DOMAIN donations :
                    /\ donations[i].razorpayOrderId = reqs'[r].orderId
                    /\ donations[i].devoteeId = reqs'[r].devoteeId
                    /\ donations[i].status = PENDING)
             => reqs'[r].pc = "capture"
          /\ (IsVerify(r) /\ reqs[r].pc = "capture" /\ reqs'[r].pc # "capture"
              /\ reqs'[r].result # "500")
             => donations'[reqs[r].idx].status = CAPTURED]_vars

\* a donation was captured and answered with success after the devotee
\* dropped the organization from the favorites and the organization and
\* the event were deactivated
C24_Witness ==
    \E r \in Slots :
        /\ IsVerify(r) /\ reqs[r].result = "200" /\ reqs[r].seen = PENDING
        /\ donations[reqs[r].idx].status = CAPTURED
        /\ FavoriteRows(reqs[r].devoteeId, donations[reqs[r].idx].adminId) = {}
        /\ ~userActive[donations[reqs[r].idx].adminId]
        /\ ~events[donations[reqs[r].idx].eventId].isActive
        /\ \E q \in Slots : /\ q < r
                            /\ reqs[q].op = "setFavorites" /\ reqs[q].result = "200"

\* C25: a createDonationOrder whose amount is below Rs 1 or above
\* Rs 1,000,000 ends, in the step it arrives, with the validation failure,
\* whatever the devotee's favorites, with no gateway order and no donation
\* row; one whose amount is within [1, 1,000,000] does not end with the
\* validation failure and carries the amount cut to two decimals.
C25_AmountRange ==
    [][\A r \in Slots :
          (reqs[r].pc = "idle" /\ reqs'[r].op = "createDonationOrder")
          => /\ (reqs'[r].bodyAmount < 1000 \/ reqs'[r].bodyAmount > CEILING_MILLIS)
                => /\ reqs'[r].pc = "done" /\ reqs'[r].result = "422"
                   /\ gatewayOrders' = gatewayOrders
                   /\ donations' = donations
             /\ (reqs'[r].bodyAmount >= 1000 /\ reqs'[r].bodyAmount <= CEILING_MILLIS)
                => /\ reqs'[r].result # "422"
                   /\ reqs'[r].amount = reqs'[r].bodyAmount \div 10]_vars

\* the amount just above the ceiling was rejected for a devotee whose
\* favorite the organization is, and the ceiling itself went through
C25_Witness ==
    \E r, q \in Slots :
        /\ IsCreateOrder(r) /\ reqs[r].bodyAmount = CEILING_MILLIS + 1
        /\ reqs[r].result = "422"
        /\ \E f \in favorites : /\ f.devoteeId = reqs[r].devoteeId
                                /\ f.adminId = reqs[r].adminId
        /\ IsCreateOrder(q) /\ reqs[q].bodyAmount = CEILING_MILLIS
        /\ reqs[q].result = "201"
        /\ donations[reqs[q].idx].amount = CEILING_MILLIS \div 10

\* C28: once no request is in flight, every devotee's favorites are the
\* list the devotee had at the start or the de-duplicated adminIds of one
\* of the devotee's setFavorites requests, with displayOrder 1..n in request
\* order: no interleaving or failure of setFavorites requests leaves a list
\* that is neither.
C28_ReplacesAtomically ==
    (\A r \in Slots : reqs[r].pc \in {"idle", "done"})
    => \A d \in Devotees :
          LET mine == {f \in favorites : f.devoteeId = d}
          IN \/ mine = {[devoteeId |-> d, adminId |-> 1, displayOrder |-> 1]}
                /\ d = 1
             \/ mine = {} /\ d # 1
             \/ \E r \in Slots :
                   /\ reqs[r].op = "setFavorites" /\ reqs[r].devoteeId = d
                   /\ mine = {[devoteeId |-> d,
                               adminId |-> reqs[r].adminIds[k],
                               displayOrder |-> k] : k \in DOMAIN reqs[r].adminIds}

\* C29: no two verifyOtp requests succeed on the same issued OTP of a
\* devotee (the same otpHash and otpExpiresAt), whether one follows the
\* other or the two run concurrently.
C29_OtpSingleUse ==
    ~ \E r, q \in Slots :
          /\ r # q
          /\ reqs[r].op = "verifyOtp" /\ reqs[q].op = "verifyOtp"
          /\ reqs[r].result = "200" /\ reqs[q].result = "200"
          /\ reqs[r].devoteeId = reqs[q].devoteeId
          /\ reqs[r].otpHash = reqs[q].otpHash
          /\ reqs[r].otpExpiresAt = reqs[q].otpExpiresAt

\* the number of captured donations of devotee d among rows 1..n
RECURSIVE CapturedCountOf(_, _)
CapturedCountOf(d, n) ==
    IF n = 0 THEN 0
    ELSE CapturedCountOf(d, n - 1)
         + IF donations[n].status = CAPTURED /\ donations[n].devoteeId = d
           THEN 1 ELSE 0

\* the amounts of the captured donations of devotee d among rows 1..n
RECURSIVE CapturedAmountOf(_, _)
CapturedAmountOf(d, n) ==
    IF n = 0 THEN 0
    ELSE CapturedAmountOf(d, n - 1)
         + IF donations[n].status = CAPTURED /\ donations[n].devoteeId = d
           THEN donations[n].amount ELSE 0

\* C30: getStats answers with the number of the devotee's captured
\* donations and with the sum of their amounts, as the table stands when
\* the request is served; pending and failed rows and other devotees' rows
\* add nothing.
C30_StatsOfCaptured ==
    [][\A r \in Slots :
          (reqs[r].pc = "idle" /\ reqs'[r].op = "getStats")
          => /\ reqs'[r].result = "200"
             /\ reqs'[r].totalDonations =
                   CapturedCountOf(reqs'[r].devoteeId, Len(donations))
             /\ reqs'[r].totalAmountPaise =
                   CapturedAmountOf(reqs'[r].devoteeId, Len(donations))
             /\ donations' = donations]_vars

\* a getStats of a devotee was answered with one donation, after a
\* verification captured it, while another row of the devotee is pending
C30_Witness ==
    \E r, q \in Slots :
        /\ reqs[r].op = "getStats" /\ reqs[r].totalDonations = 1
        /\ reqs[r].totalAmountPaise = 100
        /\ IsVerify(q) /\ reqs[q].result = "200" /\ q < r
        /\ reqs[q].devoteeId = reqs[r].devoteeId
        /\ \E i \in DOMAIN donations : /\ donations[i].devoteeId = reqs[r].devoteeId
                                       /\ donations[i].status = PENDING

\* the paise of the captured donations among rows 1..n that name event e
RECURSIVE CapturedPaise(_, _)
CapturedPaise(e, n) ==
    IF n = 0 THEN 0
    ELSE CapturedPaise(e, n - 1)
         + IF donations[n].status = CAPTURED /\ donations[n].eventId = e
           THEN donations[n].amount ELSE 0

\* C26: when no request is in flight (and none has ended with the server
\* error), every event's raisedAmountPaise is the sum, in paise, of the
\* amounts of the captured donations that name the event, walk-in cash
\* donations included.
C26_RaisedIsSumOfCaptured ==
    (\A r \in Slots : reqs[r].pc \in {"idle", "done"} /\ reqs[r].result # "500")
    => \A e \in DOMAIN events :
          events[e].raisedAmountPaise = CapturedPaise(e, Len(donations))

TypeOK ==
    /\ \A i \in DOMAIN donations : donations[i].status \in {PENDING, CAPTURED, FAILED}
    /\ \A e \in DOMAIN events : events[e].raisedAmountPaise >= 0
    /\ \A r \in Slots : reqs[r].pc = "idle" <=> reqs[r].op = "none"
====
